---- MODULE Spec2Model ----
(***************************************************************************)
(* Model of spookyotp/otp.py: the HOTP (RFC 4226) and TOTP (RFC 6238)      *)
(* engines, the shared code generator OTPBase._get_otp and the code        *)
(* comparator OTPBase._compare / constant_time_compare.                    *)
(*                                                                         *)
(* Python integers are unbounded, and the counter check of _get_otp is at  *)
(* 64 bits.  A counter is therefore kept as a little-endian sequence of    *)
(* CounterBytes + 1 bytes (the last byte holds bits 64..71), so that the   *)
(* values around 2^64 are represented exactly.                             *)
(*                                                                         *)
(* Strings are sequences of one-character strings.                         *)
(***************************************************************************)
EXTENDS Integers, Sequences, FiniteSets, TLC

VARIABLES
    hmacTab,    \* digest of hmac.new(secret, msg, algorithm), per message
    n_digits,   \* self._n_digits
    counter,    \* HOTP: self.counter
    calls,      \* number of calls made on the engine so far
    last,       \* record of the last call on the engine
    first,      \* record of the first call, if a get_otp() with no counter,
                \* kept while the second call is the last
    matched,    \* HOTP: counters at which some compare has matched
    period,     \* TOTP: self._period
    clock       \* TOTP: what self._current_timestamp() returns, in ticks

vars == <<hmacTab, n_digits, counter, calls, last, first, matched,
          period, clock>>

(***************************************************************************)
(* Bounds of the model.                                                    *)
(***************************************************************************)
MaxCalls == 2          \* calls made on one engine
MaxLookAhead == 2      \* largest look_ahead passed to HOTP.compare
MaxDrift == 3          \* how far ahead of the stored counter a code is taken
TopMargin == 1         \* initial counters 2^64 - 1 - j, j in 0..TopMargin
MaxDigits == 11        \* digit counts 1..MaxDigits of the code generator
TicksPerSec == 2       \* resolution of a (float) timestamp
MaxClockSteps == 3     \* advances of the time source
MaxStepDifference == 1 \* largest max_step_difference passed to TOTP.compare

(***************************************************************************)
(* Program constants.                                                      *)
(***************************************************************************)
CounterBits == 64
DefaultDigits == 6
DefaultLookAhead == 2
DefaultStepDifference == 1
DefaultPeriod == 30
DigestLen == 20        \* hashlib.sha1, the default algorithm
ByteBase == 256
CounterBytes == CounterBits \div 8

(***************************************************************************)
(* Python int, for the counter: little-endian bytes.                       *)
(***************************************************************************)
RECURSIVE ShiftBytes(_, _)
ShiftBytes(n, i) == IF i = 0 THEN n ELSE ShiftBytes(n \div ByteBase, i - 1)

\* the counter whose value is the small natural number n
FromInt(n) == [i \in 1..(CounterBytes + 1) |-> ShiftBytes(n, i - 1) % ByteBase]

\* 2^64 - j, for 1 <= j <= ByteBase
TopMinus(j) ==
    [i \in 1..(CounterBytes + 1) |->
        IF i = 1 THEN ByteBase - j
        ELSE IF i <= CounterBytes THEN ByteBase - 1 ELSE 0]

\* 2^64
TwoTo64 == [i \in 1..(CounterBytes + 1) |-> IF i = CounterBytes + 1 THEN 1 ELSE 0]

RECURSIVE CarryInto(_, _, _)
CarryInto(c, n, i) ==
    IF i = 1 THEN n ELSE (c[i - 1] + CarryInto(c, n, i - 1)) \div ByteBase

\* c + n, for a natural number n
AddInt(c, n) == [i \in 1..Len(c) |-> (c[i] + CarryInto(c, n, i)) % ByteBase]

RECURSIVE ByteBitLength(_)
ByteBitLength(b) == IF b = 0 THEN 0 ELSE 1 + ByteBitLength(b \div 2)

\* int.bit_length()
bit_length(c) ==
    IF \A i \in 1..Len(c) : c[i] = 0 THEN 0
    ELSE LET h == CHOOSE i \in 1..Len(c) :
                     c[i] # 0 /\ \A j \in (i + 1)..Len(c) : c[j] = 0
         IN  8 * (h - 1) + ByteBitLength(c[h])

\* a < b on counters
Less(a, b) ==
    \E i \in 1..Len(a) : a[i] < b[i] /\ \A j \in (i + 1)..Len(a) : a[j] = b[j]

Leq(a, b) == a = b \/ Less(a, b)

(***************************************************************************)
(* Strings of the program: sequences of one-character strings.             *)
(***************************************************************************)
DigitChars == <<"0", "1", "2", "3", "4", "5", "6", "7", "8", "9">>

IsDigit(ch) == \E d \in 1..Len(DigitChars) : DigitChars[d] = ch

\* str(n) of a natural number
RECURSIVE Decimal(_)
Decimal(n) ==
    IF n < 10 THEN <<DigitChars[n + 1]>>
    ELSE Decimal(n \div 10) \o <<DigitChars[(n % 10) + 1]>>

\* ('{:0' + str(n_d) + '}').format(v), v a natural number
PadFormat(v, n_d) ==
    LET s == Decimal(v)
    IN  IF Len(s) >= n_d THEN s ELSE [i \in 1..(n_d - Len(s)) |-> "0"] \o s

\* s[-n:]
LastChars(s, n) ==
    IF n = 0 \/ n >= Len(s) THEN s ELSE SubSeq(s, Len(s) - n + 1, Len(s))

(***************************************************************************)
(* spookyotp.byte_util, which otp.py imports.                              *)
(***************************************************************************)
\* the counter as 8 bytes, most significant first
int_to_bytearray(c) == [k \in 1..CounterBytes |-> c[CounterBytes + 1 - k]]

\* 4 bytes, most significant first, as an integer with the top bit cleared
bytes_to_31_bit_int(buf) ==
    (((buf[1] % 128) * ByteBase + buf[2]) * ByteBase + buf[3]) * ByteBase + buf[4]

(***************************************************************************)
(* hmac.new(secret, msg, algorithm).digest() is the library's: for the     *)
(* engine's secret it is some fixed function of the message, here the      *)
(* table hmacTab, which Init chooses freely.  The table is indexed by the  *)
(* message's last byte modulo HmacSlots, so the digests of any HmacSlots   *)
(* consecutive counters are independent of one another: the counters       *)
(* c..c+MaxDrift of HOTP, and the steps s-2..s+1 of TOTP.                  *)
(***************************************************************************)
HmacSlots == MaxDrift + 1

hmac_digest(tab, msg) == tab[msg[Len(msg)] % HmacSlots]

\* a digest whose last nibble is idx and whose bytes idx..idx+3 are w
MkDigest(idx, w) ==
    [k \in 1..DigestLen |->
        IF k = DigestLen THEN 160 + idx
        ELSE IF k - 1 >= idx /\ k - 1 < idx + 4 THEN w[k - idx]
        ELSE 90]

\* RFC 4226 5.4: offset 10, 0x50ef7f19 = 1357872921
DigestRfc == MkDigest(10, <<80, 239, 127, 25>>)
\* offset 15, 0xffffffff: the sign bit is set
DigestTop == MkDigest(15, <<255, 255, 255, 255>>)
\* offset 0, 0x000d51d9 = 872921: the six digits of DigestRfc
DigestSame == MkDigest(0, <<0, 13, 81, 217>>)

EngineDigests == {DigestRfc, DigestTop}

(***************************************************************************)
(* OTPBase._get_otp                                                        *)
(***************************************************************************)
\* the ValueError of line 126
get_otp_raises(counter_int) == bit_length(counter_int) > CounterBits

\* hashed[-1] & 0x0f
TruncIndex(hashed) == hashed[Len(hashed)] % 16

\* hashed[idx:idx + 4], as Python slices: cut at the end of hashed
Truncated(hashed) ==
    LET idx == TruncIndex(hashed)
        hi == IF idx + 4 < Len(hashed) THEN idx + 4 ELSE Len(hashed)
    IN  SubSeq(hashed, idx + 1, hi)

\* a variant of to_display that pads and does not cut
to_display_uncut(as_int, n_d) == PadFormat(as_int, n_d)

\* pad_str.format(as_int)[-n_digits:]
to_display(as_int, n_d) == LastChars(PadFormat(as_int, n_d), n_d)

\* the code returned when the counter fits
_get_otp(tab, counter_int, n_d) ==
    LET hashed == hmac_digest(tab, int_to_bytearray(counter_int))
        as_int == bytes_to_31_bit_int(Truncated(hashed))
    IN  to_display(as_int, n_d)

(***************************************************************************)
(* constant_time_compare and OTPBase._compare                              *)
(***************************************************************************)
MinLen(a, b) == IF Len(a) < Len(b) THEN Len(a) ELSE Len(b)

RECURSIVE ZipEqual(_, _, _)
\* are_equal after the first k pairs of zip(str_a, str_b)
ZipEqual(str_a, str_b, k) ==
    IF k = 0 THEN Len(str_a) = Len(str_b)
    ELSE ZipEqual(str_a, str_b, k - 1) /\ (str_a[k] = str_b[k])

constant_time_compare(str_a, str_b) == ZipEqual(str_a, str_b, MinLen(str_a, str_b))

\* str.strip() of the blanks int() ignores
RECURSIVE LStrip(_)
LStrip(s) == IF s # <<>> /\ Head(s) = " " THEN LStrip(Tail(s)) ELSE s
RECURSIVE RStrip(_)
RStrip(s) ==
    IF s # <<>> /\ s[Len(s)] = " " THEN RStrip(SubSeq(s, 1, Len(s) - 1)) ELSE s

\* int(code, 10) raises no ValueError: blanks around, an optional sign, then
\* digits, single underscores allowed between digits
IntParses(code) ==
    LET t == RStrip(LStrip(code))
        u == IF t # <<>> /\ Head(t) \in {"+", "-"} THEN Tail(t) ELSE t
    IN  /\ u # <<>>
        /\ IsDigit(u[1]) /\ IsDigit(u[Len(u)])
        /\ \A i \in 1..Len(u) : IsDigit(u[i]) \/ u[i] = "_"
        /\ \A i \in 1..(Len(u) - 1) : ~(u[i] = "_" /\ u[i + 1] = "_")

\* _compare raises ValueError
compare_raises(code_a, code_b) == ~IntParses(code_a) \/ ~IntParses(code_b)

\* _compare's result when it raises nothing
_compare(code_a, code_b) == constant_time_compare(code_a, code_b)

(***************************************************************************)
(* Records of calls.                                                       *)
(***************************************************************************)
NoCall ==
    [op |-> "none", hasCounter |-> FALSE, ctr |-> FromInt(0), auto |-> FALSE,
     code |-> <<>>, look_ahead |-> 0, before |-> FromInt(0),
     raised |-> FALSE, retCode |-> <<>>, retBool |-> FALSE]

NonDigitCode == <<"a", "b", "c", "1", "2", "3">>
SignedCode == <<"+", "7", "2", "9", "2", "1">>
OtherCodes == {NonDigitCode, SignedCode}

(***************************************************************************)
(* HOTP                                                                    *)
(***************************************************************************)
\* HOTP.__init__: counters at the bottom and at the top of the 64-bit range
StartCounters == {FromInt(0)} \cup {TopMinus(j + 1) : j \in 0..TopMargin}

InitHOTP ==
    /\ hmacTab \in [0..(HmacSlots - 1) -> EngineDigests]
    /\ n_digits = DefaultDigits
    /\ counter \in StartCounters
    /\ calls = 0
    /\ last = NoCall
    /\ first = NoCall
    /\ matched = {}
    /\ period = DefaultPeriod
    /\ clock = 0

\* the record kept of the first call while the second is made
FirstCall ==
    IF calls = 1 /\ last.op = "get_otp" /\ ~last.hasCounter THEN last ELSE NoCall

\* a variant of CounterAfterGet that increments whenever auto_increment is set
CounterAfterGetAlways(stored, hasCounter, auto_increment) ==
    IF auto_increment THEN AddInt(stored, 1) ELSE stored

\* the stored counter after lines 276-279
CounterAfterGet(stored, hasCounter, auto_increment) ==
    IF ~hasCounter /\ auto_increment THEN AddInt(stored, 1) ELSE stored

\* HOTP.get_otp(counter, auto_increment); hasCounter = counter is not None
HOTP_get_otp(hasCounter, ctr, auto_increment) ==
    /\ calls < MaxCalls
    /\ \E c \in {IF hasCounter THEN ctr ELSE counter} :
       \E raises \in {get_otp_raises(c)} :
        /\ counter' = CounterAfterGet(counter, hasCounter, auto_increment)
        /\ last' = [op |-> "get_otp", hasCounter |-> hasCounter,
                    ctr |-> IF hasCounter THEN ctr ELSE FromInt(0),
                    auto |-> auto_increment, code |-> <<>>, look_ahead |-> 0,
                    before |-> counter, raised |-> raises,
                    retCode |-> IF raises THEN <<>>
                                ELSE _get_otp(hmacTab, c, n_digits),
                    retBool |-> FALSE]
        /\ first' = FirstCall
        /\ calls' = calls + 1
        /\ UNCHANGED <<hmacTab, n_digits, matched, period, clock>>

\* counters = [self.counter + i for i in range(0, look_ahead + 1)]
Counters(stored, look_ahead) ==
    [i \in 1..(look_ahead + 1) |-> AddInt(stored, i - 1)]

\* a variant of IndexOfTrue that takes the last True
IndexOfLastTrue(is_valid) ==
    IF \E i \in 1..Len(is_valid) : is_valid[i]
    THEN CHOOSE i \in 1..Len(is_valid) :
             is_valid[i] /\ \A j \in (i + 1)..Len(is_valid) : ~is_valid[j]
    ELSE 0

\* a variant of IndexOfTrue that answers the last index when True is missing
IndexOfTrueOrLast(is_valid) ==
    IF \E i \in 1..Len(is_valid) : is_valid[i]
    THEN CHOOSE i \in 1..Len(is_valid) :
             is_valid[i] /\ \A j \in 1..(i - 1) : ~is_valid[j]
    ELSE Len(is_valid)

\* is_valid.index(True), 1-based; 0 when True is not in the list
IndexOfTrue(is_valid) ==
    IF \E i \in 1..Len(is_valid) : is_valid[i]
    THEN CHOOSE i \in 1..Len(is_valid) :
             is_valid[i] /\ \A j \in 1..(i - 1) : ~is_valid[j]
    ELSE 0

\* a variant of Resync that stays on the matched counter
ResyncNoStep(counters, idx) == counters[idx]

\* a variant of Resync that steps past the stored counter only
ResyncByOne(counters, idx) == AddInt(counters[1], 1)

\* the stored counter after a match at index idx (line 311)
Resync(counters, idx) == AddInt(counters[idx], 1)

\* HOTP.compare(code, look_ahead): "raise", "false" or "true" with the index
CompareOutcome(tab, stored, n_d, code, look_ahead) ==
    IF look_ahead < 0 THEN [kind |-> "raise", idx |-> 0]
    ELSE LET counters == Counters(stored, look_ahead)
         IN  IF \E i \in 1..Len(counters) : get_otp_raises(counters[i])
             THEN [kind |-> "raise", idx |-> 0]
             ELSE LET valid_codes == [i \in 1..Len(counters) |->
                                         _get_otp(tab, counters[i], n_d)]
                  IN  IF \E i \in 1..Len(counters) :
                             compare_raises(code, valid_codes[i])
                      THEN [kind |-> "false", idx |-> 0]
                      ELSE LET is_valid == [i \in 1..Len(counters) |->
                                               _compare(code, valid_codes[i])]
                               idx == IndexOfTrue(is_valid)
                           IN  IF idx = 0 THEN [kind |-> "false", idx |-> 0]
                               ELSE [kind |-> "true", idx |-> idx]

HOTP_compare(code, look_ahead) ==
    /\ calls < MaxCalls
    /\ \E out \in {CompareOutcome(hmacTab, counter, n_digits, code, look_ahead)} :
       \E counters \in {Counters(counter, look_ahead)} :
        /\ counter' = IF out.kind = "true" THEN Resync(counters, out.idx)
                      ELSE counter
        /\ matched' = IF out.kind = "true" THEN matched \cup {counters[out.idx]}
                      ELSE matched
        /\ last' = [op |-> "compare", hasCounter |-> FALSE, ctr |-> FromInt(0),
                    auto |-> FALSE, code |-> code, look_ahead |-> look_ahead,
                    before |-> counter, raised |-> out.kind = "raise",
                    retCode |-> <<>>, retBool |-> out.kind = "true"]
        /\ first' = FirstCall
        /\ calls' = calls + 1
        /\ UNCHANGED <<hmacTab, n_digits, period, clock>>

\* the counters a caller passes to get_otp
CounterArgs == {AddInt(counter, d) : d \in 0..1} \cup {TwoTo64}

\* the codes a caller passes to compare: the codes of the counters ahead,
\* the code the last call returned, and other strings
CodesAhead ==
    {_get_otp(hmacTab, AddInt(counter, d), n_digits) :
        d \in {e \in 0..MaxDrift : ~get_otp_raises(AddInt(counter, e))}}

CodeArgs ==
    CodesAhead \cup OtherCodes
    \cup (IF last.op = "get_otp" /\ ~last.raised THEN {last.retCode} ELSE {})

GetOtpDefault == \E a \in BOOLEAN : HOTP_get_otp(FALSE, FromInt(0), a)
GetOtpAt == \E c \in CounterArgs, a \in BOOLEAN : HOTP_get_otp(TRUE, c, a)
Compare == \E code \in CodeArgs, la \in -1..MaxLookAhead : HOTP_compare(code, la)

NextHOTP == GetOtpDefault \/ GetOtpAt \/ Compare

SpecHOTP == InitHOTP /\ [][NextHOTP]_vars

(***************************************************************************)
(* TOTP.  A timestamp is a number of ticks, TicksPerSec to the second:     *)
(* time.time() returns a float.                                            *)
(***************************************************************************)
NoTimeCall ==
    [op |-> "none", hasTs |-> FALSE, ts |-> 0, code |-> <<>>, k |-> 0,
     now |-> 0, nreads |-> 0, raised |-> FALSE, retCode |-> <<>>,
     retBool |-> FALSE, steps |-> <<>>]

Periods == {1, DefaultPeriod}

\* the time source starts one second before the boundary of a step, late
\* enough for every step of the model to be a natural number
ClockBase(p) == (MaxStepDifference + 2) * p * TicksPerSec - TicksPerSec

InitTOTP ==
    /\ hmacTab \in [0..(HmacSlots - 1) -> EngineDigests]
    /\ n_digits = DefaultDigits
    /\ period \in Periods
    /\ clock = ClockBase(period)
    /\ last = NoTimeCall
    /\ counter = FromInt(0)
    /\ calls = 0
    /\ first = NoCall
    /\ matched = {}

\* int(timestamp): truncation towards zero
PyInt(ts) == IF ts >= 0 THEN ts \div TicksPerSec ELSE -((-ts) \div TicksPerSec)

\* int(timestamp)//self._period
StepOf(ts, p) == PyInt(ts) \div p

\* timestamp + i * self._period
ShiftTime(ts, i, p) == ts + i * p * TicksPerSec

\* TOTP.get_otp(timestamp), timestamp given
TOTP_code(tab, ts, p, n_d) == _get_otp(tab, FromInt(StepOf(ts, p)), n_d)

\* a variant of WindowOffsets without the last step
WindowOffsetsShort(k) == [j \in 1..(2 * k) |-> j - 1 - k]

\* range(-max_step_difference, max_step_difference + 1), as a sequence
WindowOffsets(k) == [j \in 1..(2 * k + 1) |-> j - 1 - k]

\* the time source moves on
Tick ==
    /\ clock < ClockBase(period) + MaxClockSteps
    /\ clock' = clock + 1
    /\ UNCHANGED <<hmacTab, n_digits, counter, calls, last, first, matched, period>>

\* TOTP.get_otp(timestamp); hasTs = timestamp is not None
TOTP_get_otp(hasTs, timestamp) ==
    /\ \E ts \in {IF hasTs THEN timestamp ELSE clock} :
        last' = [op |-> "get_otp", hasTs |-> hasTs,
                 ts |-> IF hasTs THEN timestamp ELSE 0, code |-> <<>>, k |-> 0,
                 now |-> IF hasTs THEN 0 ELSE clock,
                 nreads |-> IF hasTs THEN 0 ELSE 1,
                 raised |-> get_otp_raises(FromInt(StepOf(ts, period))),
                 retCode |-> TOTP_code(hmacTab, ts, period, n_digits),
                 retBool |-> FALSE, steps |-> <<StepOf(ts, period)>>]
    /\ UNCHANGED <<hmacTab, n_digits, counter, calls, first, matched, period, clock>>

\* TOTP.compare(code, max_step_difference)
TOTP_compare(code, max_step_difference) ==
    /\ IF max_step_difference < 0
       THEN last' = [op |-> "compare", hasTs |-> FALSE, ts |-> 0, code |-> code,
                     k |-> max_step_difference, now |-> 0, nreads |-> 0,
                     raised |-> TRUE, retCode |-> <<>>, retBool |-> FALSE,
                     steps |-> <<>>]
       ELSE \E timestamp \in {clock} :
            \E offs \in {WindowOffsets(max_step_difference)} :
            \E valid_codes \in {[j \in 1..Len(offs) |->
                                   TOTP_code(hmacTab,
                                             ShiftTime(timestamp, offs[j], period),
                                             period, n_digits)]} :
              last' = [op |-> "compare", hasTs |-> FALSE, ts |-> 0, code |-> code,
                       k |-> max_step_difference, now |-> timestamp, nreads |-> 1,
                       raised |-> \E j \in 1..Len(offs) :
                                      compare_raises(code, valid_codes[j]),
                       retCode |-> <<>>,
                       retBool |-> /\ \A j \in 1..Len(offs) :
                                         ~compare_raises(code, valid_codes[j])
                                   /\ \E j \in 1..Len(offs) :
                                         _compare(code, valid_codes[j]),
                       steps |-> [j \in 1..Len(offs) |->
                                    StepOf(ShiftTime(timestamp, offs[j], period),
                                           period)]]
    /\ UNCHANGED <<hmacTab, n_digits, counter, calls, first, matched, period, clock>>

\* the timestamps and codes a caller passes: those of the steps around now
StepsAround == -(MaxStepDifference + 1)..(MaxStepDifference + 1)

TimeArgs == {ShiftTime(clock, i, period) : i \in StepsAround}

TimeCodeArgs ==
    {TOTP_code(hmacTab, ts, period, n_digits) : ts \in TimeArgs} \cup OtherCodes

TimeGetOtpNow == TOTP_get_otp(FALSE, 0)
TimeGetOtpAt == \E ts \in TimeArgs : TOTP_get_otp(TRUE, ts)
TimeCompare ==
    \E code \in TimeCodeArgs, k \in -1..MaxStepDifference : TOTP_compare(code, k)

NextTOTP == Tick \/ TimeGetOtpNow \/ TimeGetOtpAt \/ TimeCompare

SpecTOTP == InitTOTP /\ [][NextTOTP]_vars

(***************************************************************************)
(* The code generator alone, over sample digests and every digit count.    *)
(***************************************************************************)
SampleDigests ==
    { DigestRfc, DigestTop, DigestSame,
      MkDigest(3, <<0, 0, 0, 0>>),          \* 0
      MkDigest(7, <<128, 0, 0, 1>>),        \* 0x80000001: 1 once masked
      MkDigest(12, <<0, 0, 0, 10>>),        \* 10
      MkDigest(1, <<0, 15, 66, 63>>),       \* 999999
      MkDigest(14, <<0, 15, 66, 64>>),      \* 1000000
      MkDigest(5, <<127, 255, 255, 255>>) } \* 2^31 - 1

SampleCounters == {FromInt(0), FromInt(ByteBase), TopMinus(1)}

NoCodeCall == [op |-> "none", as_int |-> 0, code |-> <<>>]

InitCode ==
    /\ hmacTab \in {[slot \in 0..(HmacSlots - 1) |-> d] : d \in SampleDigests}
    /\ n_digits \in 1..MaxDigits
    /\ counter \in SampleCounters
    /\ last = NoCodeCall
    /\ calls = 0
    /\ first = NoCall
    /\ matched = {}
    /\ period = DefaultPeriod
    /\ clock = 0

\* as_int of line 131
AsInt(tab, counter_int) ==
    bytes_to_31_bit_int(Truncated(hmac_digest(tab, int_to_bytearray(counter_int))))

\* OTPBase._get_otp(secret, counter, n_digits, algorithm) on the engine's fields
Generate ==
    /\ last.op = "none"
    /\ ~get_otp_raises(counter)
    /\ last' = [op |-> "_get_otp", as_int |-> AsInt(hmacTab, counter),
                code |-> _get_otp(hmacTab, counter, n_digits)]
    /\ UNCHANGED <<hmacTab, n_digits, counter, calls, first, matched, period, clock>>

NextCode == Generate

SpecCode == InitCode /\ [][NextCode]_vars

(***************************************************************************)
(* Properties of HOTP, checked under SpecHOTP.                             *)
(***************************************************************************)
\* c fits in an unsigned 64-bit integer: 0 <= c < 2^64
Fits(c) == Less(c, TwoTo64)

\* the code of counter c on this engine
CodeAt(c) == _get_otp(hmacTab, c, n_digits)

AllDigits(code) == code # <<>> /\ \A i \in 1..Len(code) : IsDigit(code[i])

\* the last call is the second call, a compare with the default look_ahead of
\* the code that the first call, a get_otp() with no counter, returned
RoundTrip(auto_increment) ==
    /\ calls = 2
    /\ first.op = "get_otp" /\ ~first.hasCounter /\ first.auto = auto_increment
    /\ ~first.raised
    /\ last.op = "compare"
    /\ last.code = first.retCode
    /\ last.look_ahead = DefaultLookAhead

\* C1 as stated: on a fresh engine with counter c, the code returned by get_otp()
\* with default arguments, passed to compare() with the default look_ahead, is
\* accepted, and the counter is left at c+1.  Stated for the engines whose
\* counter is away from the top of the range, where every candidate of the
\* compare fits in 64 bits.
C1_RoundTripDefault ==
    (RoundTrip(TRUE) /\ Fits(AddInt(first.before, 1 + DefaultLookAhead))) =>
        ~last.raised /\ last.retBool /\ counter = AddInt(first.before, 1)

\* C1 amended: on a fresh engine with counter c, the code returned by
\* get_otp(auto_increment=False), passed to compare() with the default look_ahead,
\* is accepted and the counter is left at c+1 when c+look_ahead fits in 64 bits;
\* otherwise compare raises and the counter is left at c.
C1_RoundTripNoIncrement ==
    RoundTrip(FALSE) =>
        IF Fits(AddInt(first.before, DefaultLookAhead))
        THEN ~last.raised /\ last.retBool /\ counter = AddInt(first.before, 1)
        ELSE last.raised /\ ~last.retBool /\ counter = first.before

C1_Witness ==
    /\ RoundTrip(FALSE)
    /\ last.retBool
    /\ counter = AddInt(first.before, 1)

\* C2 as stated: compare(code, look_ahead) with the code of counter c+d,
\* 0 <= d <= look_ahead, returns true and sets the counter to c+d+1.  Stated for
\* the engines whose counter is away from the top of the range, where every
\* candidate of the compare fits in 64 bits.
C2_LookAheadResync ==
    (last.op = "compare" /\ Fits(AddInt(last.before, last.look_ahead))) =>
        \A d \in 0..last.look_ahead :
            (Fits(AddInt(last.before, d)) /\ last.code = CodeAt(AddInt(last.before, d)))
            => /\ ~last.raised /\ last.retBool
               /\ counter = AddInt(last.before, d + 1)

\* C2 amended: compare(code, look_ahead) with the code of counter c+d,
\* 0 <= d <= look_ahead, when c+look_ahead fits in 64 bits, returns true and sets
\* the counter to c+i+1 for the least i in 0..d whose candidate code equals the
\* code (i = d unless an earlier candidate has the same code); when c+look_ahead
\* does not fit, it raises and leaves the counter at c.
C2_FirstMatchResync ==
    last.op = "compare" =>
        \A d \in 0..last.look_ahead :
            (Fits(AddInt(last.before, d)) /\ last.code = CodeAt(AddInt(last.before, d)))
            => IF Fits(AddInt(last.before, last.look_ahead))
               THEN /\ ~last.raised /\ last.retBool
                    /\ \E i \in 0..d :
                        /\ last.code = CodeAt(AddInt(last.before, i))
                        /\ \A j \in 0..(i - 1) :
                               last.code # CodeAt(AddInt(last.before, j))
                        /\ counter = AddInt(last.before, i + 1)
               ELSE last.raised /\ ~last.retBool /\ counter = last.before

C2_Witness ==
    /\ last.op = "compare"
    /\ last.look_ahead = MaxLookAhead
    /\ last.code = CodeAt(AddInt(last.before, MaxLookAhead))
    /\ \A j \in 0..(MaxLookAhead - 1) : last.code # CodeAt(AddInt(last.before, j))
    /\ last.retBool
    /\ counter = AddInt(last.before, MaxLookAhead + 1)

\* the code of the last compare equals no candidate code
NoCandidateMatches ==
    \A i \in 0..last.look_ahead :
        ~(Fits(AddInt(last.before, i)) /\ last.code = CodeAt(AddInt(last.before, i)))

\* C3: a compare(code, look_ahead) whose code equals none of the candidate codes
\* of counters current..current+look_ahead does not return true and leaves the
\* stored counter as it was; when the candidates exist (look_ahead >= 0 and
\* current+look_ahead fits in 64 bits) it returns false.
C3_NoMatchNoMutation ==
    (last.op = "compare" /\ NoCandidateMatches) =>
        /\ ~last.retBool
        /\ counter = last.before
        /\ (last.look_ahead >= 0 /\ Fits(AddInt(last.before, last.look_ahead)))
               => ~last.raised

C3_Witness ==
    /\ last.op = "compare"
    /\ last.look_ahead >= 0
    /\ Fits(AddInt(last.before, last.look_ahead))
    /\ AllDigits(last.code)
    /\ NoCandidateMatches
    /\ ~last.raised /\ ~last.retBool
    /\ counter = last.before

\* C4 as stated: a compare whose code is not composed entirely of decimal digits
\* fails with an error; it returns neither true nor false.
C4_NonDigitRejected ==
    (last.op = "compare" /\ ~AllDigits(last.code)) => last.raised

\* C5: get_otp with a counter argument leaves the stored counter unchanged
\* whatever auto_increment is; get_otp without one adds exactly one to the stored
\* counter if auto_increment is true and leaves it unchanged if it is false, and
\* returns the code of the stored counter's value before the call (a value that
\* fits in 64 bits).
C5_GetOtpCounterEffect ==
    last.op = "get_otp" =>
        /\ last.hasCounter => counter = last.before
        /\ (~last.hasCounter /\ last.auto) => counter = AddInt(last.before, 1)
        /\ (~last.hasCounter /\ ~last.auto) => counter = last.before
        /\ (~last.hasCounter /\ Fits(last.before))
               => ~last.raised /\ last.retCode = CodeAt(last.before)

C5_Witness ==
    /\ last.op = "get_otp"
    /\ ~last.hasCounter /\ last.auto
    /\ ~last.raised
    /\ last.retCode = CodeAt(last.before)
    /\ counter = AddInt(last.before, 1)

\* C6 as stated: a get_otp or compare that ends in an error leaves the stored
\* counter exactly as it was before the call.
C6_ErrorLeavesCounter ==
    last.raised => counter = last.before

\* C9 as stated: the stored counter of an engine constructed with a counter that
\* fits in an unsigned 64-bit integer always fits in one.
C9_CounterFits == Fits(counter)

\* C10: the stored counter never decreases; every counter at which a compare has
\* matched is below the stored counter, and no compare has it among its
\* candidates afterwards.
C10_MonotoneNoReplay ==
    [][ /\ Leq(counter, counter')
        /\ \A m \in matched' : Less(m, counter')
        /\ last'.op = "compare" =>
               \A m \in matched : \A i \in 0..last'.look_ahead :
                   AddInt(counter, i) # m ]_vars

C10_Witness ==
    /\ last.op = "compare"
    /\ last.look_ahead >= 0
    /\ \E m \in matched : Less(m, last.before)

(***************************************************************************)
(* Properties of TOTP, checked under SpecTOTP.                             *)
(***************************************************************************)
\* the code of the step of timestamp ts on this engine
TimeCodeAt(ts) == TOTP_code(hmacTab, ts, period, n_digits)

\* floor(now / period)
FloorStep(now) == now \div (period * TicksPerSec)

\* the candidates of the last compare are the codes of the steps
\* floor(now/period)-k .. floor(now/period)+k, the time source read once, and
\* the result says whether the code is among them
WindowIsSymmetric ==
    /\ last.nreads = 1
    /\ last.steps = [j \in 1..(2 * last.k + 1) |->
                        FloorStep(last.now) - last.k + (j - 1)]
    /\ ~last.raised =>
           (last.retBool <=>
               \E j \in 1..Len(last.steps) :
                   last.code = _get_otp(hmacTab, FromInt(last.steps[j]), n_digits))

\* the code of the last compare is the code of one of the steps s-1, s, s+1
InDefaultWindow ==
    \E i \in -DefaultStepDifference..DefaultStepDifference :
        last.code = TimeCodeAt(ShiftTime(last.now, i, period))

\* C7 as stated: compare(code, 1) accepts the codes generated at now - period
\* and now + period and rejects the code generated at now - 2*period; the
\* candidates are the codes of steps floor(now/period)-k..floor(now/period)+k,
\* the time source read once.
C7_SymmetricWindow ==
    (last.op = "compare" /\ last.k >= 0) =>
        /\ WindowIsSymmetric
        /\ last.k = DefaultStepDifference =>
            /\ last.code = TimeCodeAt(ShiftTime(last.now, -1, period))
                   => ~last.raised /\ last.retBool
            /\ last.code = TimeCodeAt(ShiftTime(last.now, 1, period))
                   => ~last.raised /\ last.retBool
            /\ last.code = TimeCodeAt(ShiftTime(last.now, -2, period))
                   => ~last.raised /\ ~last.retBool

\* C7 amended: as C7, but the code generated at now - 2*period is rejected
\* unless it equals the code of one of the three steps of the window.
C7_SymmetricWindowUpToEqualCodes ==
    (last.op = "compare" /\ last.k >= 0) =>
        /\ WindowIsSymmetric
        /\ last.k = DefaultStepDifference =>
            /\ last.code = TimeCodeAt(ShiftTime(last.now, -1, period))
                   => ~last.raised /\ last.retBool
            /\ last.code = TimeCodeAt(ShiftTime(last.now, 1, period))
                   => ~last.raised /\ last.retBool
            /\ (last.code = TimeCodeAt(ShiftTime(last.now, -2, period))
                /\ ~InDefaultWindow)
                   => ~last.raised /\ ~last.retBool

C7_Witness ==
    /\ last.op = "compare"
    /\ last.k = DefaultStepDifference
    /\ last.now % TicksPerSec # 0
    /\ last.code = TimeCodeAt(ShiftTime(last.now, 1, period))
    /\ last.code # TimeCodeAt(last.now)
    /\ last.code # TimeCodeAt(ShiftTime(last.now, -1, period))
    /\ last.retBool

(***************************************************************************)
(* Properties of the code generator, checked under SpecCode.               *)
(***************************************************************************)
RECURSIVE DecimalValue(_)
\* the number a string of digits denotes
DecimalValue(code) ==
    IF code = <<>> THEN 0
    ELSE 10 * DecimalValue(SubSeq(code, 1, Len(code) - 1))
         + (CHOOSE d \in 0..9 : DigitChars[d + 1] = code[Len(code)])

\* C8: the generated code has exactly n_digits characters, all decimal digits:
\* the truncated value zero-padded on the left, cut to its last n_digits digits.
C8_FixedWidth ==
    last.op = "_get_otp" =>
        /\ Len(last.code) = n_digits
        /\ \A i \in 1..Len(last.code) : IsDigit(last.code[i])
        /\ last.as_int >= 0
        /\ DecimalValue(last.code) =
               IF n_digits >= 10 THEN last.as_int ELSE last.as_int % (10 ^ n_digits)

C8_Witness ==
    /\ last.op = "_get_otp"
    /\ n_digits = DefaultDigits
    /\ last.as_int >= 10 ^ DefaultDigits
    /\ Len(last.code) = DefaultDigits

====
